---- MODULE Spec2Model ----
(***************************************************************************)
(* The type layer of inkwell (src/types.rs): Type, FunctionType and        *)
(* IntType, thin wrappers over handles of a foreign IR engine.             *)
(*                                                                         *)
(* The wrappers are translated from src/types.rs.  The foreign engine      *)
(* (the LLVM* calls) and the Context collaborator (context.rs) are not in  *)
(* the source tree; they are modelled from the boundary contract the       *)
(* specification gives for them (sections 3, 4.3, 6 and 7).                *)
(*                                                                         *)
(* A handle is a natural number: NULL is 0, and handle h > 0 is the h-th   *)
(* type the engine has interned.  The engine interns: asking twice for a   *)
(* type with the same description yields the same handle.                  *)
(***************************************************************************)
EXTENDS Integers, Sequences, FiniteSets, TLC

(***************************************************************************)
(* Bounds of the model.                                                    *)
(***************************************************************************)
\* The engine interns at most this many types.
MaxTypes == 3
\* Contexts other than the process-wide one are numbered 1..MaxContexts.
MaxContexts == 1
\* A function type is built from at most this many parameters.
MaxParams == 2
\* Addresses are 0..MemTop; the mapped ones are 1..MemTop-1.
MemTop == 3
\* The engine interns at most this many integer constants.
MaxConsts == 2

\* The null handle (is_null, types.rs:20).
NULL == 0
\* The process-wide context the context-less constructors work on.
GlobalContext == 0
\* A non-null address that is no type of the engine.
WILD == -1

\* Inputs the operations are tried on.
AddressSpaces == {0}
ArraySizes == {0, 2}
CustomBits == {8, 24}
ContextWidths == {8}
ConstWidths == {1, 8, 16, 64}
StructIndexes == {0, 1, 2}
ValueSamples == {0, 44, 300}
Contexts == 0..MaxContexts
\* Two threads: mutual exclusion is a property of pairs of threads.
Threads == {1, 2}
\* The numbers of fields the struct types are built with.
FieldCounts == {1, 2}
Addresses == 0..MemTop
Mapped == 1..(MemTop - 1)

VARIABLES
    types,      \* engine: the interned types, handle h is types[h]
    consts,     \* engine: the interned integer constants
    ctxState,   \* engine: each context "unused", "live" or "dead" (torn down)
    typeW,      \* the handles held by the client's Type wrappers
    fnW,        \* the handles held by the client's FunctionType wrappers
    intW,       \* the handles held by the client's IntType wrappers
    halted,     \* the process was killed by a fault in a foreign call
    last,       \* the last operation, its arguments and its outcome
    made,       \* history: <<F, P, v>> for every F = R.fn_type(P, v)
    reqs,       \* history: <<C, W, h>> for every request of the W-bit integer type of C
    derived,    \* history: <<D, C>> for every D derived from a component of context C
    inCall,     \* threads: the contexts each thread is inside a foreign call on
    ctxOwner    \* threads: the thread each context's handles are confined to

vars == <<types, consts, ctxState, typeW, fnW, intW, halted, last, made, reqs,
          derived, inCall, ctxOwner>>

(***************************************************************************)
(* The foreign engine's type table.                                        *)
(***************************************************************************)
Desc(kind, ctx, width, elem, num, params, vararg) ==
    [kind |-> kind, ctx |-> ctx, width |-> width, elem |-> elem, num |-> num,
     params |-> params, vararg |-> vararg]

IntDesc(ctx, width) == Desc("int", ctx, width, NULL, 0, <<>>, FALSE)

Handles == 1..Len(types)

\* LLVMGetTypeContext: every type belongs to exactly one context.
LLVMGetTypeContext(h) == types[h].ctx

PtrDesc(elem, as) == Desc("ptr", LLVMGetTypeContext(elem), 0, elem, as, <<>>, FALSE)

ArrayDesc(elem, size) == Desc("array", LLVMGetTypeContext(elem), 0, elem, size, <<>>, FALSE)

FnDesc(ret, params, flag) ==
    Desc("fn", LLVMGetTypeContext(ret), 0, ret, 0, params, flag # 0)

StructDesc(ctx, fields) == Desc("struct", ctx, 0, NULL, 0, fields, FALSE)

\* The handle of description d in table t, or NULL when t does not hold it.
Lookup(t, d) ==
    IF \E i \in 1..Len(t) : t[i] = d
    THEN CHOOSE i \in 1..Len(t) : t[i] = d
    ELSE NULL

\* What a minting call can return, with the table it leaves: the interned
\* handle of d (minted when d is new and the table has room), or NULL.
Intern(d) ==
    {[h |-> NULL, types |-> types]}
    \cup (IF Lookup(types, d) # NULL
          THEN {[h |-> Lookup(types, d), types |-> types]}
          ELSE IF Len(types) < MaxTypes
               THEN {[h |-> Len(types) + 1, types |-> Append(types, d)]}
               ELSE {})

LLVMIntTypeInContext(ctx, bits) == Intern(IntDesc(ctx, bits))
LLVMIntType(bits) == LLVMIntTypeInContext(GlobalContext, bits)
LLVMInt1Type == LLVMIntType(1)
LLVMInt8Type == LLVMIntType(8)
LLVMInt16Type == LLVMIntType(16)
LLVMInt32Type == LLVMIntType(32)
LLVMInt64Type == LLVMIntType(64)
LLVMPointerType(elem, as) == Intern(PtrDesc(elem, as))
LLVMArrayType(elem, size) == Intern(ArrayDesc(elem, size))
LLVMFunctionType(ret, params, count, flag) ==
    Intern(FnDesc(ret, SubSeq(params, 1, count), flag))
LLVMIsFunctionVarArg(h) == IF types[h].vararg THEN 1 ELSE 0
LLVMCountParamTypes(h) == Len(types[h].params)

\* LLVMStructGetTypeAtIndex: NULL when h is no struct or index is out of range.
LLVMStructGetTypeAtIndex(h, index) ==
    IF types[h].kind = "struct" /\ index < Len(types[h].params)
    THEN types[h].params[index + 1]
    ELSE NULL

(***************************************************************************)
(* Handles and the lifetime of their context.                              *)
(***************************************************************************)
Live(ctx) == IF ctx = GlobalContext THEN TRUE ELSE ctxState[ctx] = "live"

\* h points into a context that was torn down.
Dangling(h) == h \in Handles /\ ~Live(LLVMGetTypeContext(h))

\* What a foreign call that dereferences the handles hs can do: a null or
\* wild handle faults; a handle into a torn-down context faults or reads
\* what the freed type still holds.
Access(hs) ==
    IF \E h \in hs : h \notin Handles THEN {"fault"}
    ELSE IF \E h \in hs : Dangling(h) THEN {"fault", "stale"}
    ELSE {"ok"}

Rec(op, recv, args, status, result, uaf) ==
    [op |-> op, recv |-> recv, args |-> args, status |-> status,
     result |-> result, uaf |-> uaf, wrote |-> {}, buf |-> {}]

\* The foreign call faulted: the process is gone.
Crash(op, recv, args, uaf) ==
    /\ halted' = TRUE
    /\ last' = Rec(op, recv, args, "fault", <<>>, uaf)
    /\ UNCHANGED <<types, consts, ctxState, typeW, fnW, intW, made, reqs,
                   derived>>

(***************************************************************************)
(* The checked factories.                                                  *)
(***************************************************************************)
\* Type::new: assert!(!type_.is_null()).
Type_new(type_) == [ok |-> type_ # NULL, h |-> type_]

\* FunctionType::new: assert!(!fn_type.is_null()).
FunctionType_new(fn_type) == [ok |-> fn_type # NULL, h |-> fn_type]

\* IntType::new: assert!(!int_type.is_null()).
IntType_new(int_type) == [ok |-> int_type # NULL, h |-> int_type]

Status(w) == IF w.ok THEN "ok" ELSE "panic"
Result(w) == IF w.ok THEN <<w.h>> ELSE <<>>
Kept(w) == IF w.ok THEN {w.h} ELSE {}

Init ==
    /\ types = <<>>
    /\ consts = <<>>
    /\ ctxState = [c \in 1..MaxContexts |-> "unused"]
    /\ typeW = {}
    /\ fnW = {}
    /\ intW = {}
    /\ halted = FALSE
    /\ last = Rec("init", NULL, <<>>, "ok", <<>>, FALSE)
    /\ made = {}
    /\ reqs = {}
    /\ derived = {}
    /\ inCall = [t \in Threads |-> {}]
    /\ ctxOwner = [c \in Contexts |-> 0]

(***************************************************************************)
(* Type: derivation.                                                       *)
(***************************************************************************)
\* Type::ptr_type
ptr_type(self, address_space) ==
    /\ ~halted
    /\ self \in typeW
    /\ \E acc \in Access({self}) :
        IF acc = "fault" THEN Crash("ptr_type", self, <<address_space>>, Dangling(self))
        ELSE \E r \in LLVMPointerType(self, address_space) :
            LET w == Type_new(r.h) IN
            /\ types' = r.types
            /\ typeW' = typeW \cup Kept(w)
            /\ last' = Rec("ptr_type", self, <<address_space>>, Status(w), Result(w),
                           acc = "stale")
            /\ derived' = IF w.ok THEN derived \cup {<<w.h, LLVMGetTypeContext(self)>>}
                          ELSE derived
            /\ UNCHANGED <<consts, ctxState, fnW, intW, halted, made, reqs>>

\* Type::array_type
array_type(self, size) ==
    /\ ~halted
    /\ self \in typeW
    /\ \E acc \in Access({self}) :
        IF acc = "fault" THEN Crash("array_type", self, <<size>>, Dangling(self))
        ELSE \E r \in LLVMArrayType(self, size) :
            LET w == Type_new(r.h) IN
            /\ types' = r.types
            /\ typeW' = typeW \cup Kept(w)
            /\ last' = Rec("array_type", self, <<size>>, Status(w), Result(w),
                           acc = "stale")
            /\ derived' = IF w.ok THEN derived \cup {<<w.h, LLVMGetTypeContext(self)>>}
                          ELSE derived
            /\ UNCHANGED <<consts, ctxState, fnW, intW, halted, made, reqs>>

\* The parameter sequences fn_type is tried on.
ParamSeqs(S) == UNION {[1..n -> S] : n \in 0..MaxParams}

\* The field sequences the struct types are built from.
FieldSeqs(S) == UNION {[1..n -> S] : n \in FieldCounts}

Range(s) == {s[i] : i \in 1..Len(s)}

BoolInt(b) == IF b THEN 1 ELSE 0

\* fn_type's foreign call with the variadic flag dropped.
fn_type_call_no_flag(self, param_types, is_var_args) ==
    LLVMFunctionType(self, param_types, Len(param_types), 0)

\* fn_type's foreign call: the slice's pointer, its length, the flag as i32.
fn_type_call(self, param_types, is_var_args) ==
    LLVMFunctionType(self, param_types, Len(param_types), BoolInt(is_var_args))

\* Type::fn_type.  The caller passes parameters of self's context.
fn_type(self, param_types, is_var_args) ==
    /\ ~halted
    /\ self \in typeW
    /\ \A p \in Range(param_types) \cap Handles :
          self \in Handles => LLVMGetTypeContext(p) = LLVMGetTypeContext(self)
    /\ \E acc \in Access({self} \cup Range(param_types)) :
        LET args == <<BoolInt(is_var_args)>> \o param_types
            uaf == \E h \in {self} \cup Range(param_types) : Dangling(h)
        IN
        IF acc = "fault" THEN Crash("fn_type", self, args, uaf)
        ELSE \E r \in fn_type_call(self, param_types, is_var_args) :
            LET w == FunctionType_new(r.h) IN
            /\ types' = r.types
            /\ fnW' = fnW \cup Kept(w)
            /\ last' = Rec("fn_type", self, args, Status(w), Result(w), acc = "stale")
            /\ made' = IF w.ok THEN made \cup {<<w.h, param_types, is_var_args>>}
                       ELSE made
            /\ derived' = IF w.ok THEN derived \cup {<<w.h, LLVMGetTypeContext(self)>>}
                          ELSE derived
            /\ UNCHANGED <<consts, ctxState, typeW, intW, halted, reqs>>

(***************************************************************************)
(* FunctionType: introspection.                                            *)
(***************************************************************************)
\* An introspection call: nothing but last (and halted) changes.
Query(op, self, args, acc, result) ==
    IF acc = "fault" THEN Crash(op, self, args, Dangling(self))
    ELSE /\ last' = Rec(op, self, args, "ok", result, acc = "stale")
         /\ UNCHANGED <<types, consts, ctxState, typeW, fnW, intW, halted, made,
                        reqs, derived>>

\* FunctionType::is_var_arg's value.
is_var_arg_value(self) == LLVMIsFunctionVarArg(self) # 0

\* FunctionType::is_var_arg
is_var_arg(self) ==
    /\ ~halted
    /\ self \in fnW
    /\ \E acc \in Access({self}) :
        Query("is_var_arg", self, <<>>, acc, <<BoolInt(is_var_arg_value(self))>>)

\* FunctionType::count_param_types
count_param_types(self) ==
    /\ ~halted
    /\ self \in fnW
    /\ \E acc \in Access({self}) :
        Query("count_param_types", self, <<>>, acc, <<LLVMCountParamTypes(self)>>)

Span(a, n) == a..(a + n - 1)

\* FunctionType::get_param_types.  raw_vec is never initialised: the
\* address the engine writes to (dest) and the address the Vec is built on
\* (src) are whatever the build makes of it, and no buffer is allocated.
\* LLVMGetParamTypes writes the count parameters from dest on; the Vec's
\* elements are what lies at src: the handles written when src is dest,
\* and otherwise whatever that memory holds (null or wild words).  They
\* become Type wrappers by transmute, with no null check.  What the stray
\* write destroys in the memory it lands on is not followed further.
get_param_types(self) ==
    /\ ~halted
    /\ self \in fnW
    /\ \E acc \in Access({self}) :
        IF acc = "fault" THEN Crash("get_param_types", self, <<>>, Dangling(self))
        ELSE
        LET count == LLVMCountParamTypes(self) IN
        \E dest \in Addresses, src \in Addresses :
            IF ~(Span(dest, count) \subseteq Mapped /\ Span(src, count) \subseteq Mapped)
            THEN Crash("get_param_types", self, <<>>, Dangling(self))
            ELSE \E read \in IF src = dest THEN {types[self].params}
                             ELSE [1..count -> {NULL, WILD}] :
                /\ typeW' = typeW \cup Range(read)
                /\ last' = [Rec("get_param_types", self, <<count>>, "ok", read,
                                acc = "stale")
                            EXCEPT !.wrote = Span(dest, count), !.buf = {}]
                /\ UNCHANGED <<types, consts, ctxState, fnW, intW, halted, made,
                               reqs, derived>>

(***************************************************************************)
(* Type: introspection and constants.                                      *)
(***************************************************************************)
\* get_context answering with the process-wide context.
get_context_value_global(self) == GlobalContext

\* Type::get_context's value: the context the engine attributes to self.
get_context_value(self) == LLVMGetTypeContext(self)

\* Type::get_context
get_context(self) ==
    /\ ~halted
    /\ self \in typeW
    /\ \E acc \in Access({self}) :
        Query("get_context", self, <<>>, acc, <<get_context_value(self)>>)

\* get_type_at_struct_index without its null check.
struct_index_result_unchecked(type_) ==
    LET w == Type_new(type_) IN [status |-> Status(w), result |-> Result(w)]

\* What get_type_at_struct_index makes of the handle the engine returned.
struct_index_result(type_) ==
    IF type_ = NULL THEN [status |-> "ok", result |-> <<>>]
    ELSE LET w == Type_new(type_) IN [status |-> Status(w), result |-> Result(w)]

\* Type::get_type_at_struct_index
get_type_at_struct_index(self, index) ==
    /\ ~halted
    /\ self \in typeW
    /\ \E acc \in Access({self}) :
        IF acc = "fault"
        THEN Crash("get_type_at_struct_index", self, <<index>>, Dangling(self))
        ELSE LET r == struct_index_result(LLVMStructGetTypeAtIndex(self, index)) IN
            /\ typeW' = typeW \cup Range(r.result)
            /\ last' = Rec("get_type_at_struct_index", self, <<index>>, r.status,
                           r.result, acc = "stale")
            /\ UNCHANGED <<types, consts, ctxState, fnW, intW, halted, made, reqs,
                           derived>>

\* The engine keeps the low bits of a constant's value; the sampled values
\* are below 2^31, so a width of 31 bits or more keeps them whole.
Trunc(n, width) == IF width < 31 THEN n % (2 ^ width) ELSE n

ConstDesc(ty, n) == [ty |-> ty, val |-> Trunc(n, types[ty].width)]

\* LLVMConstInt: the interned constant of type ty holding n's low bits.
LLVMConstInt(ty, n, sign_extend) ==
    LET d == ConstDesc(ty, n) IN
    IF Lookup(consts, d) # NULL
    THEN {[k |-> Lookup(consts, d), consts |-> consts]}
    ELSE IF Len(consts) < MaxConsts
         THEN {[k |-> Len(consts) + 1, consts |-> Append(consts, d)]}
         ELSE {}

\* const_int clamping the value to the type's largest value before the call.
const_int_call_saturating(self, value, sign_extend) ==
    LET width == types[self].width
        top == IF width < 31 THEN 2 ^ width - 1 ELSE value
    IN LLVMConstInt(self, IF value > top THEN top ELSE value, BoolInt(sign_extend))

\* const_int's foreign call.
const_int_call(self, value, sign_extend) ==
    LLVMConstInt(self, value, BoolInt(sign_extend))

\* Type::const_int, on an integer type.
const_int(self, value, sign_extend) ==
    /\ ~halted
    /\ self \in typeW
    /\ self \in Handles
    /\ types[self].kind = "int"
    /\ \E acc \in Access({self}) :
        LET args == <<value, BoolInt(sign_extend)>> IN
        IF acc = "fault" THEN Crash("const_int", self, args, Dangling(self))
        ELSE \E r \in const_int_call(self, value, sign_extend) :
            /\ consts' = r.consts
            /\ last' = Rec("const_int", self, args, "ok", <<r.k>>, acc = "stale")
            /\ UNCHANGED <<types, ctxState, typeW, fnW, intW, halted, made, reqs,
                           derived>>

(***************************************************************************)
(* IntType: the context-less constructors.                                 *)
(***************************************************************************)
\* The body the constructors share: the foreign call's handle goes through
\* IntType::new.  bits is the width the caller asked for.
IntCtor(op, bits, call) ==
    /\ ~halted
    /\ \E r \in call :
        LET w == IntType_new(r.h)
            again == \E q \in reqs : q[1] = GlobalContext /\ q[2] = bits
        IN
        /\ types' = r.types
        /\ intW' = intW \cup Kept(w)
        /\ last' = Rec(op, NULL, <<GlobalContext, bits, BoolInt(again)>>, Status(w),
                       Result(w), FALSE)
        /\ reqs' = IF w.ok THEN reqs \cup {<<GlobalContext, bits, w.h>>} ELSE reqs
        /\ UNCHANGED <<consts, ctxState, typeW, fnW, halted, made, derived>>

\* IntType::bool_type
bool_type == IntCtor("bool_type", 1, LLVMInt1Type)

\* i8_type calling the 16-bit constructor of the engine.
i8_type_as_i16 == IntCtor("i8_type", 8, LLVMInt16Type)

\* IntType::i8_type
i8_type == IntCtor("i8_type", 8, LLVMInt8Type)

\* IntType::i16_type
i16_type == IntCtor("i16_type", 16, LLVMInt16Type)

\* IntType::i32_type
i32_type == IntCtor("i32_type", 32, LLVMInt32Type)

\* IntType::i64_type
i64_type == IntCtor("i64_type", 64, LLVMInt64Type)

\* IntType::i128_type
i128_type == IntCtor("i128_type", 128, LLVMIntType(128))

\* IntType::custom_width_int_type
custom_width_int_type(bits) == IntCtor("custom_width_int_type", bits, LLVMIntType(bits))

(***************************************************************************)
(* The Context collaborator.                                               *)
(***************************************************************************)
\* Context::create
ContextCreate(c) ==
    /\ ~halted
    /\ ctxState[c] = "unused"
    /\ ctxState' = [ctxState EXCEPT ![c] = "live"]
    /\ last' = Rec("Context::create", NULL, <<c>>, "ok", <<c>>, FALSE)
    /\ UNCHANGED <<types, consts, typeW, fnW, intW, halted, made, reqs, derived>>

\* The context is torn down; the engine frees what it interned.  The
\* wrappers the client still holds are not touched.
ContextDrop(c) ==
    /\ ~halted
    /\ ctxState[c] = "live"
    /\ ctxState' = [ctxState EXCEPT ![c] = "dead"]
    /\ last' = Rec("Context::drop", NULL, <<c>>, "ok", <<>>, FALSE)
    /\ UNCHANGED <<types, consts, typeW, fnW, intW, halted, made, reqs, derived>>

\* Context::i8_type and its siblings: the bits-wide integer type of c, as a Type.
ContextIntType(c, bits) ==
    /\ ~halted
    /\ Live(c)
    /\ \E r \in LLVMIntTypeInContext(c, bits) :
        LET w == Type_new(r.h)
            again == \E q \in reqs : q[1] = c /\ q[2] = bits
        IN
        /\ types' = r.types
        /\ typeW' = typeW \cup Kept(w)
        /\ last' = Rec("Context::int_type", NULL, <<c, bits, BoolInt(again)>>,
                       Status(w), Result(w), FALSE)
        /\ reqs' = IF w.ok THEN reqs \cup {<<c, bits, w.h>>} ELSE reqs
        /\ UNCHANGED <<consts, ctxState, fnW, intW, halted, made, derived>>

\* A struct type of c with the given field types, as a Type.
ContextStructType(c, fields) ==
    /\ ~halted
    /\ Live(c)
    /\ \A f \in Range(fields) : f \in Handles /\ LLVMGetTypeContext(f) = c
    /\ \E r \in Intern(StructDesc(c, fields)) :
        LET w == Type_new(r.h) IN
        /\ types' = r.types
        /\ typeW' = typeW \cup Kept(w)
        /\ last' = Rec("Context::struct_type", NULL, <<c>> \o fields, Status(w),
                       Result(w), FALSE)
        /\ UNCHANGED <<consts, ctxState, fnW, intW, halted, made, reqs, derived>>

(***************************************************************************)
(* One thread: the operation runs from call to return with no other        *)
(* thread in the layer.                                                    *)
(***************************************************************************)
Alone(Op) == Op /\ UNCHANGED <<inCall, ctxOwner>>

(***************************************************************************)
(* The client of Type and FunctionType: it gets its primitive types from a *)
(* Context, derives types from them, introspects them, and may tear the    *)
(* Context down.                                                           *)
(***************************************************************************)
Next ==
    \/ \E self \in typeW, a \in AddressSpaces : Alone(ptr_type(self, a))
    \/ \E self \in typeW, n \in ArraySizes : Alone(array_type(self, n))
    \/ \E self \in typeW, ps \in ParamSeqs(typeW), v \in BOOLEAN :
          Alone(fn_type(self, ps, v))
    \/ \E self \in fnW : Alone(is_var_arg(self))
    \/ \E self \in fnW : Alone(count_param_types(self))
    \/ \E self \in fnW : Alone(get_param_types(self))
    \/ \E self \in typeW : Alone(get_context(self))
    \/ \E c \in 1..MaxContexts : Alone(ContextCreate(c))
    \/ \E c \in 1..MaxContexts : Alone(ContextDrop(c))
    \/ \E c \in Contexts, bits \in ContextWidths : Alone(ContextIntType(c, bits))

Spec == Init /\ [][Next]_vars

(***************************************************************************)
(* The client of the struct types.                                         *)
(***************************************************************************)
NextStruct ==
    \/ \E c \in 1..MaxContexts : Alone(ContextCreate(c))
    \/ \E c \in Contexts, bits \in ContextWidths : Alone(ContextIntType(c, bits))
    \/ \E c \in Contexts, fs \in FieldSeqs(typeW) : Alone(ContextStructType(c, fs))
    \/ \E self \in typeW, a \in AddressSpaces : Alone(ptr_type(self, a))
    \/ \E self \in typeW, i \in StructIndexes : Alone(get_type_at_struct_index(self, i))

SpecStruct == Init /\ [][NextStruct]_vars

(***************************************************************************)
(* The client of the integer constants.                                    *)
(***************************************************************************)
NextConst ==
    \/ \E c \in Contexts, bits \in ConstWidths : Alone(ContextIntType(c, bits))
    \/ \E self \in typeW, v \in ValueSamples, s \in BOOLEAN : Alone(const_int(self, v, s))

SpecConst == Init /\ [][NextConst]_vars

(***************************************************************************)
(* The client of the integer types: the context-less constructors, the     *)
(* same widths asked of a Context, and a derivation in between.            *)
(***************************************************************************)
NextInt ==
    \/ \E c \in 1..MaxContexts : Alone(ContextCreate(c))
    \/ Alone(bool_type)
    \/ Alone(i8_type)
    \/ Alone(i16_type)
    \/ Alone(i32_type)
    \/ Alone(i64_type)
    \/ Alone(i128_type)
    \/ \E bits \in CustomBits : Alone(custom_width_int_type(bits))
    \/ \E c \in Contexts, bits \in ContextWidths : Alone(ContextIntType(c, bits))
    \/ \E self \in typeW, a \in AddressSpaces : Alone(ptr_type(self, a))

SpecInt == Init /\ [][NextInt]_vars

(***************************************************************************)
(* Several threads.  The layer takes no lock: a thread is inside a foreign *)
(* call from the moment it enters an operation until it returns, and the   *)
(* only thing that keeps another thread out is what it can reach.  Type    *)
(* and FunctionType hold a raw handle, so a wrapper stays with the thread  *)
(* that made it, and a Context stays with the thread that created it.      *)
(***************************************************************************)
Busy(t) == inCall[t] # {}

\* Wrappers that any thread can use.
CanUseShared(t, self) == self \in Handles

\* A thread can call a method only on a wrapper it holds: Type is a struct
\* of one raw pointer, neither Send nor Sync.
CanUse(t, self) == self \in Handles /\ ctxOwner[LLVMGetTypeContext(self)] = t

\* Thread t enters operation Op, a foreign call on context ctx.
Enter(t, ctx, Op) ==
    /\ ~Busy(t)
    /\ Op
    /\ inCall' = [inCall EXCEPT ![t] = {ctx}]
    /\ UNCHANGED ctxOwner

\* The foreign call of thread t returns.
Return(t) ==
    /\ Busy(t)
    /\ inCall' = [inCall EXCEPT ![t] = {}]
    /\ UNCHANGED <<types, consts, ctxState, typeW, fnW, intW, halted, last, made,
                   reqs, derived, ctxOwner>>

\* Thread t creates context c, which stays with it.
ThreadContextCreate(t, c) ==
    /\ ~Busy(t)
    /\ ContextCreate(c)
    /\ ctxOwner' = [ctxOwner EXCEPT ![c] = t]
    /\ UNCHANGED inCall

NextThreads ==
    \/ \E t \in Threads, c \in 1..MaxContexts : ThreadContextCreate(t, c)
    \/ \E t \in Threads, c \in 1..MaxContexts, bits \in ContextWidths :
          ctxOwner[c] = t /\ Enter(t, c, ContextIntType(c, bits))
    \/ \E t \in Threads, self \in typeW, a \in AddressSpaces :
          CanUse(t, self) /\ Enter(t, LLVMGetTypeContext(self), ptr_type(self, a))
    \/ \E t \in Threads : Enter(t, GlobalContext, bool_type)
    \/ \E t \in Threads : Enter(t, GlobalContext, i8_type)
    \/ \E t \in Threads : Enter(t, GlobalContext, i16_type)
    \/ \E t \in Threads : Enter(t, GlobalContext, i32_type)
    \/ \E t \in Threads : Enter(t, GlobalContext, i64_type)
    \/ \E t \in Threads : Enter(t, GlobalContext, i128_type)
    \/ \E t \in Threads, bits \in CustomBits :
          Enter(t, GlobalContext, custom_width_int_type(bits))
    \/ \E t \in Threads : Return(t)

SpecThreads == Init /\ [][NextThreads]_vars

(***************************************************************************)
(* The properties.                                                         *)
(***************************************************************************)
IntRequests == {"bool_type", "i8_type", "i16_type", "i32_type", "i64_type",
                "i128_type", "custom_width_int_type", "Context::int_type"}

\* C1: for every F = R.fn_type(P, v), F.count_param_types() is the length of
\* P and F.get_param_types() returns the handles of P, in order.
FnTypeRoundTrip ==
    \A m \in made :
        /\ (last.op = "count_param_types" /\ last.recv = m[1] /\ last.status = "ok")
              => last.result = <<Len(m[2])>>
        /\ (last.op = "get_param_types" /\ last.recv = m[1] /\ ~last.uaf)
              => (last.status = "ok" /\ last.result = m[2])

StructIndexAbsence ==
    last.op = "get_type_at_struct_index" =>
        LET T == types[last.recv]
            inRange == T.kind = "struct" /\ last.args[1] < Len(T.params)
        IN /\ last.status = "ok"
           /\ ~inRange => last.result = <<>>
           /\ last.result # <<>> => inRange /\ last.result = <<T.params[last.args[1] + 1]>>

\* C4: get_type_at_struct_index returned None on a struct, for an index at
\* its field count.
StructIndexOutOfRange ==
    /\ last.op = "get_type_at_struct_index"
    /\ last.status = "ok"
    /\ types[last.recv].kind = "struct"
    /\ last.args[1] = Len(types[last.recv].params)
    /\ last.result = <<>>

\* C5: any two requests for the W-bit integer type of context C yield the
\* same handle.
SingletonIdentity ==
    \A a \in reqs, b \in reqs : (a[1] = b[1] /\ a[2] = b[2]) => a[3] = b[3]

\* C5: an integer type was requested again after a type was derived.
SingletonRequestedAgain ==
    /\ last.op \in IntRequests
    /\ last.status = "ok"
    /\ last.args[3] = 1
    /\ derived # {}

ModPow2(v, width) == IF width < 31 THEN v % (2 ^ width) ELSE v

\* C7: const_int(v, s) yields the constant that const_int(v mod 2^w, s)
\* yields, w being the width of the integer type.
ConstIntTruncates ==
    (last.op = "const_int" /\ last.status = "ok") =>
        \A r \in const_int_call(last.recv,
                                ModPow2(last.args[1], types[last.recv].width),
                                last.args[2] = 1) :
            r.k = last.result[1]

\* C7: the 8-bit type built a constant from 300, and it holds 44.
ConstIntOf300 ==
    /\ last.op = "const_int"
    /\ last.status = "ok"
    /\ last.args[1] = 300
    /\ types[last.recv].width = 8
    /\ consts[last.result[1]].val = 44

\* C8: no wrapper is passed to an operation after its context was torn down.
NoUseAfterTeardown == ~last.uaf

\* C9: no two threads are inside a foreign call on the same context.
SingleOwnerPerContext ==
    \A t1 \in Threads, t2 \in Threads :
        t1 # t2 => inCall[t1] \cap inCall[t2] = {}

\* C9, amended: no two threads are inside a foreign call on the same created
\* context; only the process-wide context can hold two at once.
SingleOwnerPerCreatedContext ==
    \A t1 \in Threads, t2 \in Threads :
        t1 # t2 => inCall[t1] \cap inCall[t2] \subseteq {GlobalContext}

\* C9: one thread is inside a call on a created context while another thread
\* is inside a call too.
TwoThreadsInCalls ==
    \E t1 \in Threads, t2 \in Threads :
        /\ t1 # t2
        /\ inCall[t1] # {}
        /\ GlobalContext \notin inCall[t1]
        /\ inCall[t2] # {}

\* C10: get_param_types hands the engine a caller-allocated buffer with room
\* for count_param_types() handles, the engine writes only inside it, and the
\* result is the handles written, in order.
ParamBufferSizedByCount ==
    (last.op = "get_param_types" /\ ~last.uaf) =>
        /\ last.status = "ok"
        /\ Cardinality(last.buf) = LLVMCountParamTypes(last.recv)
        /\ last.wrote \subseteq last.buf
        /\ Len(last.result) = LLVMCountParamTypes(last.recv)
        /\ last.result = types[last.recv].params
====
